---------------------------- MODULE Spec2Model ----------------------------
(***************************************************************************)
(* The runtime behaviour of the repository's exercises: the role-based     *)
(* access lookup of src/exercises/02-roleBasedAccess.exercise.ts and its   *)
(* bare copy src/unnamed/part_002, and fetchUserWithFullName and onSubmit  *)
(* of src/unnamed/part_000.                                                *)
(*                                                                         *)
(* The specifications share the state; each leaves the others' variables   *)
(* unchanged:                                                              *)
(*   Spec        every call of canUserAccess is one atomic step, as the    *)
(*               synchronous function runs in a single-threaded runtime;   *)
(*   SpecConc    several callers run the lookup statement by statement     *)
(*               (property read, then the element-by-element scan of       *)
(*               Array.prototype.includes), interleaved in every order;    *)
(*   SpecBoth    each step calls both copies of canUserAccess;             *)
(*   SpecSubmit  onSubmit, from its call to the settling of its promise;   *)
(*   SpecFetch   fetchUserWithFullName, with fetchUser as environment.     *)
(***************************************************************************)
EXTENDS Naturals, Sequences, FiniteSets

VARIABLES
  userAccessModel,  \* the module-level table object          (exercise.ts:8-13)
  history,          \* Spec: the completed calls, in order, with their outcomes
  pc,               \* SpecConc: where each caller stands in line 43
  args,             \* SpecConc: each caller's (role, action)
  k,                \* SpecConc: each caller's scan index into the role's list
  outcome,          \* SpecConc: each caller's completion
  overlapped,       \* SpecConc: whether another caller ran during this call
  spc,              \* SpecSubmit: where onSubmit stands
  values,           \* SpecSubmit: the argument of onSubmit
  trace,            \* SpecSubmit: the calls onSubmit has made, in order
  sresult,          \* SpecSubmit: how the promise of onSubmit settled
  fpc,              \* SpecFetch: where fetchUserWithFullName stands
  fargs,            \* SpecFetch: the argument list of fetchUserWithFullName
  fetchUserCalls,   \* SpecFetch: the argument lists fetchUser was called with
  settled,          \* SpecFetch: how the promise of fetchUser settled
  fresult,          \* SpecFetch: how fetchUserWithFullName's promise settled
  userAccessModelBare,  \* SpecBoth: the table object of src/unnamed/part_002
  pairs             \* SpecBoth: calls made to both copies of canUserAccess

lookupVars == <<userAccessModel, history, pc, args, k, outcome, overlapped>>

submitVars == <<spc, values, trace, sresult>>

fetchVars == <<fpc, fargs, fetchUserCalls, settled, fresult>>

bareVars == <<userAccessModelBare, pairs>>

vars == <<lookupVars, submitVars, fetchVars, bareVars>>

(***************************************************************************)
(* Bounds of the model.                                                    *)
(***************************************************************************)
MaxCalls == 3
NumCallers == 2

Callers == 1..NumCallers

(***************************************************************************)
(* The table literal and the types derived from it.  Three faulty variants *)
(* of the literal come first: the admin and anonymous lists exchanged, an  *)
(* anonymous role left without any action, and a user role without view.   *)
(***************************************************************************)
UserAccessModelUserNoView ==
  [user      |-> <<"update-self">>,
   admin     |-> <<"create", "update-self", "update-any", "delete", "view">>,
   anonymous |-> <<"view">>]

UserAccessModelSwapped ==
  [user      |-> <<"update-self", "view">>,
   admin     |-> <<"view">>,
   anonymous |-> <<"create", "update-self", "update-any", "delete", "view">>]

UserAccessModelEmptyAnonymous ==
  [user      |-> <<"update-self", "view">>,
   admin     |-> <<"create", "update-self", "update-any", "delete", "view">>,
   anonymous |-> <<>>]

UserAccessModel ==
  [user      |-> <<"update-self", "view">>,
   admin     |-> <<"create", "update-self", "update-any", "delete", "view">>,
   anonymous |-> <<"view">>]

\* The table literal of the bare copy (src/unnamed/part_002:1-5), after a
\* faulty variant whose admin list has fallen behind the exercise's.
UserAccessModelBareStale ==
  [user      |-> <<"update-self", "view">>,
   admin     |-> <<"create", "update-self", "delete", "view">>,
   anonymous |-> <<"view">>]

UserAccessModelBare ==
  [user      |-> <<"update-self", "view">>,
   admin     |-> <<"create", "update-self", "update-any", "delete", "view">>,
   anonymous |-> <<"view">>]

Elements(arr) == {arr[i] : i \in DOMAIN arr}

\* type Role = keyof typeof userAccessModel
Role == DOMAIN UserAccessModel

\* type Action = typeof userAccessModel[Role][number]
Action == UNION {Elements(UserAccessModel[r]) : r \in Role}

\* Values the static types reject but the compiled function still accepts.
NonRoles == {"guest"}
NonActions == {"purge"}

RoleInputs == Role \cup NonRoles
ActionInputs == Action \cup NonActions

(***************************************************************************)
(* Completions of a call.                                                  *)
(***************************************************************************)
Return(v) == [kind |-> "return", value |-> v]
Throw(e) == [kind |-> "throw", error |-> e]
Pending == [kind |-> "none"]

(***************************************************************************)
(* Array.prototype.includes: compare the elements from index 0 up to the   *)
(* length, true at the first equal element, false past the end.  The       *)
(* faulty variants stop one element early (includesSkipLast), look at the  *)
(* first element alone (includesFirstOnly, the [0] of Action2 in place of  *)
(* [number]), or start at the second element (includesFromSecond).         *)
(***************************************************************************)
RECURSIVE includesFrom(_, _, _)
includesFrom(arr, searchElement, i) ==
  IF i > Len(arr) THEN FALSE
  ELSE IF arr[i] = searchElement THEN TRUE
  ELSE includesFrom(arr, searchElement, i + 1)

RECURSIVE includesUpTo(_, _, _, _)
includesUpTo(arr, searchElement, i, last) ==
  IF i > last THEN FALSE
  ELSE IF arr[i] = searchElement THEN TRUE
  ELSE includesUpTo(arr, searchElement, i + 1, last)

includesSkipLast(arr, searchElement) ==
  includesUpTo(arr, searchElement, 1, Len(arr) - 1)

includesFirstOnly(arr, searchElement) ==
  Len(arr) >= 1 /\ arr[1] = searchElement

includesFromSecond(arr, searchElement) ==
  includesFrom(arr, searchElement, 2)

includes(arr, searchElement) ==
  includesFrom(arr, searchElement, 1)

(***************************************************************************)
(* canUserAccess(role, action): userAccessModel[role] is undefined for a   *)
(* key the object does not hold, and calling .includes on it raises a      *)
(* TypeError; otherwise the result of includes is returned.  The faulty    *)
(* variant canUserAccessDefaultDeny answers false for such a key instead.  *)
(***************************************************************************)
canUserAccessDefaultDeny(role, action) ==
  IF role \in DOMAIN userAccessModel
    THEN Return(includes(userAccessModel[role], action))
    ELSE Return(FALSE)

canUserAccess(role, action) ==
  IF role \in DOMAIN userAccessModel
    THEN Return(includes(userAccessModel[role], action))
    ELSE Throw("TypeError")

(***************************************************************************)
(* Initial state: the table as the literal builds it, no call made.        *)
(***************************************************************************)
Init ==
  /\ userAccessModel = UserAccessModel
  /\ history = <<>>
  /\ pc = [c \in Callers |-> "idle"]
  /\ args = [c \in Callers |-> [role |-> "user", action |-> "view"]]
  /\ k = [c \in Callers |-> 0]
  /\ outcome = [c \in Callers |-> Pending]
  /\ overlapped = [c \in Callers |-> FALSE]
  /\ spc = "idle"
  /\ values = [email |-> <<>>]
  /\ trace = <<>>
  /\ sresult = Pending
  /\ fpc = "idle"
  /\ fargs = <<>>
  /\ fetchUserCalls = <<>>
  /\ settled = Pending
  /\ fresult = Pending
  /\ userAccessModelBare = UserAccessModelBare
  /\ pairs = <<>>

(***************************************************************************)
(* Spec: one call of canUserAccess, start to completion.  The function     *)
(* assigns nothing: the table and every other variable stay as they are;   *)
(* history is the observer's log of the call.  The faulty variants search  *)
(* destructively: CallReversing reverses the role's list in place (as      *)
(* Array.prototype.reverse does), CallShifting consumes the list with      *)
(* shift() up to and including the element it finds.                       *)
(***************************************************************************)
Reverse(arr) == [i \in DOMAIN arr |-> arr[Len(arr) + 1 - i]]

DropThrough(arr, x) ==
  IF \E i \in DOMAIN arr : arr[i] = x
    THEN LET first == CHOOSE i \in DOMAIN arr :
                        arr[i] = x /\ \A j \in 1..(i - 1) : arr[j] # x
         IN  SubSeq(arr, first + 1, Len(arr))
    ELSE <<>>

CallReversing ==
  /\ Len(history) < MaxCalls
  /\ \E role \in RoleInputs, action \in ActionInputs :
       /\ history' = Append(history,
                            [role |-> role, action |-> action,
                             outcome |-> canUserAccess(role, action)])
       /\ userAccessModel' =
            IF role \in DOMAIN userAccessModel
              THEN [userAccessModel EXCEPT ![role] = Reverse(@)]
              ELSE userAccessModel
  /\ UNCHANGED <<pc, args, k, outcome, overlapped>>
  /\ UNCHANGED <<submitVars, fetchVars, bareVars>>

CallShifting ==
  /\ Len(history) < MaxCalls
  /\ \E role \in RoleInputs, action \in ActionInputs :
       /\ history' = Append(history,
                            [role |-> role, action |-> action,
                             outcome |-> canUserAccess(role, action)])
       /\ userAccessModel' =
            IF role \in DOMAIN userAccessModel
              THEN [userAccessModel EXCEPT ![role] = DropThrough(@, action)]
              ELSE userAccessModel
  /\ UNCHANGED <<pc, args, k, outcome, overlapped>>
  /\ UNCHANGED <<submitVars, fetchVars, bareVars>>

Call ==
  /\ Len(history) < MaxCalls
  /\ \E role \in RoleInputs, action \in ActionInputs :
       history' = Append(history,
                         [role |-> role, action |-> action,
                          outcome |-> canUserAccess(role, action)])
  /\ UNCHANGED <<userAccessModel, pc, args, k, outcome, overlapped>>
  /\ UNCHANGED <<submitVars, fetchVars, bareVars>>

Next == Call

Spec == Init /\ [][Next]_vars

(***************************************************************************)
(* SpecConc: callers run line 43 step by step.  A caller binds its         *)
(* arguments (Invoke), reads userAccessModel[role] and its includes method *)
(* (Lookup), compares one element of the shared list per step (ScanStep),  *)
(* and takes its completion (Finish).  overlapped[c] records that another  *)
(* caller was between Invoke and completion at some moment of c's call.    *)
(* The faulty variants of the scan consume the shared list with shift()    *)
(* (ScanStepShifting) or raise a RangeError past the end of the list       *)
(* (ScanStepThrowPastEnd).                                                 *)
(***************************************************************************)
InFlight(c) == pc[c] \in {"lookup", "scan"}

Invoke(c) ==
  /\ pc[c] = "idle"
  /\ \E role \in RoleInputs, action \in ActionInputs :
       args' = [args EXCEPT ![c] = [role |-> role, action |-> action]]
  /\ pc' = [pc EXCEPT ![c] = "lookup"]
  /\ overlapped' = [d \in Callers |->
                      IF \E e \in Callers \ {c} : InFlight(e)
                        THEN (d = c \/ InFlight(d) \/ overlapped[d])
                        ELSE overlapped[d]]
  /\ UNCHANGED <<userAccessModel, history, k, outcome>>
  /\ UNCHANGED <<submitVars, fetchVars, bareVars>>

Lookup(c) ==
  /\ pc[c] = "lookup"
  /\ IF args[c].role \in DOMAIN userAccessModel
       THEN /\ pc' = [pc EXCEPT ![c] = "scan"]
            /\ k' = [k EXCEPT ![c] = 1]
            /\ UNCHANGED outcome
       ELSE /\ pc' = [pc EXCEPT ![c] = "threw"]
            /\ outcome' = [outcome EXCEPT ![c] = Throw("TypeError")]
            /\ UNCHANGED k
  /\ UNCHANGED <<userAccessModel, history, args, overlapped>>
  /\ UNCHANGED <<submitVars, fetchVars, bareVars>>

ScanStepShifting(c) ==
  /\ pc[c] = "scan"
  /\ IF userAccessModel[args[c].role] = <<>>
       THEN /\ pc' = [pc EXCEPT ![c] = "returned"]
            /\ outcome' = [outcome EXCEPT ![c] = Return(FALSE)]
            /\ UNCHANGED userAccessModel
       ELSE /\ userAccessModel' =
                 [userAccessModel EXCEPT ![args[c].role] = Tail(@)]
            /\ IF Head(userAccessModel[args[c].role]) = args[c].action
                 THEN /\ pc' = [pc EXCEPT ![c] = "returned"]
                      /\ outcome' = [outcome EXCEPT ![c] = Return(TRUE)]
                 ELSE UNCHANGED <<pc, outcome>>
  /\ UNCHANGED <<history, args, k, overlapped>>
  /\ UNCHANGED <<submitVars, fetchVars, bareVars>>

ScanStepThrowPastEnd(c) ==
  /\ pc[c] = "scan"
  /\ IF k[c] > Len(userAccessModel[args[c].role])
       THEN /\ pc' = [pc EXCEPT ![c] = "threw"]
            /\ outcome' = [outcome EXCEPT ![c] = Throw("RangeError")]
            /\ UNCHANGED k
       ELSE IF userAccessModel[args[c].role][k[c]] = args[c].action
         THEN /\ pc' = [pc EXCEPT ![c] = "returned"]
              /\ outcome' = [outcome EXCEPT ![c] = Return(TRUE)]
              /\ UNCHANGED k
         ELSE /\ k' = [k EXCEPT ![c] = @ + 1]
              /\ UNCHANGED <<pc, outcome>>
  /\ UNCHANGED <<userAccessModel, history, args, overlapped>>
  /\ UNCHANGED <<submitVars, fetchVars, bareVars>>

ScanStep(c) ==
  /\ pc[c] = "scan"
  /\ IF k[c] > Len(userAccessModel[args[c].role])
       THEN /\ pc' = [pc EXCEPT ![c] = "returned"]
            /\ outcome' = [outcome EXCEPT ![c] = Return(FALSE)]
            /\ UNCHANGED k
       ELSE IF userAccessModel[args[c].role][k[c]] = args[c].action
         THEN /\ pc' = [pc EXCEPT ![c] = "returned"]
              /\ outcome' = [outcome EXCEPT ![c] = Return(TRUE)]
              /\ UNCHANGED k
         ELSE /\ k' = [k EXCEPT ![c] = @ + 1]
              /\ UNCHANGED <<pc, outcome>>
  /\ UNCHANGED <<userAccessModel, history, args, overlapped>>
  /\ UNCHANGED <<submitVars, fetchVars, bareVars>>

Finish(c) ==
  /\ pc[c] \in {"returned", "threw"}
  /\ pc' = [pc EXCEPT ![c] = "idle"]
  /\ args' = [args EXCEPT ![c] = [role |-> "user", action |-> "view"]]
  /\ k' = [k EXCEPT ![c] = 0]
  /\ outcome' = [outcome EXCEPT ![c] = Pending]
  /\ overlapped' = [overlapped EXCEPT ![c] = FALSE]
  /\ UNCHANGED <<userAccessModel, history>>
  /\ UNCHANGED <<submitVars, fetchVars, bareVars>>

NextConc ==
  \E c \in Callers : Invoke(c) \/ Lookup(c) \/ ScanStep(c) \/ Finish(c)

SpecConc == Init /\ [][NextConc]_vars

(***************************************************************************)
(* onSubmit (src/unnamed/part_000:92-110; src/unnamed/part_001:78-96 is    *)
(* the same function).  Strings are sequences of characters.               *)
(***************************************************************************)
MaxEmailLen == 3

Chars == {"a", "@", "."}

RECURSIVE StringsOfLen(_)
StringsOfLen(n) ==
  IF n = 0 THEN {<<>>}
  ELSE {Append(str, ch) : str \in StringsOfLen(n - 1), ch \in Chars}

Emails == UNION {StringsOfLen(n) : n \in 0..MaxEmailLen}

\* String.prototype.includes: searchString occurs at some position of str.
stringIncludes(str, searchString) ==
  \E position \in 0..(Len(str) - Len(searchString)) :
    SubSeq(str, position + 1, position + Len(searchString)) = searchString

isValidEmail(email) == stringIncludes(email, <<"@">>)

(***************************************************************************)
(* SpecSubmit: onSubmit is called with values (Submit), checks the email   *)
(* and throws on an invalid one (CheckEmail), calls createUser with the    *)
(* email (CallCreateUser) and settles when createUser has (CreateUserDone).*)
(* The faulty variant CheckEmailOmitted is onSubmit with the if statement  *)
(* of lines 93-95 commented out.                                           *)
(***************************************************************************)
Submit ==
  /\ spc = "idle"
  /\ \E email \in Emails : values' = [email |-> email]
  /\ spc' = "check"
  /\ UNCHANGED <<trace, sresult>>
  /\ UNCHANGED <<lookupVars, fetchVars, bareVars>>

CheckEmailOmitted ==
  /\ spc = "check"
  /\ spc' = "create"
  /\ UNCHANGED <<values, trace, sresult>>
  /\ UNCHANGED <<lookupVars, fetchVars, bareVars>>

CheckEmail ==
  /\ spc = "check"
  /\ trace' = Append(trace, [fn |-> "isValidEmail", email |-> values.email])
  /\ IF ~isValidEmail(values.email)
       THEN /\ spc' = "rejected"
            /\ sresult' = Throw("Email is invalid")
       ELSE /\ spc' = "create"
            /\ UNCHANGED sresult
  /\ UNCHANGED values
  /\ UNCHANGED <<lookupVars, fetchVars, bareVars>>

CallCreateUser ==
  /\ spc = "create"
  /\ trace' = Append(trace, [fn |-> "createUser", email |-> values.email])
  /\ spc' = "await"
  /\ UNCHANGED <<values, sresult>>
  /\ UNCHANGED <<lookupVars, fetchVars, bareVars>>

CreateUserDone ==
  /\ spc = "await"
  /\ spc' = "resolved"
  /\ sresult' = Return("undefined")
  /\ UNCHANGED <<values, trace>>
  /\ UNCHANGED <<lookupVars, fetchVars, bareVars>>

NextSubmit == Submit \/ CheckEmail \/ CallCreateUser \/ CreateUserDone

SpecSubmit == Init /\ [][NextSubmit]_vars

(***************************************************************************)
(* fetchUserWithFullName (src/unnamed/part_000:3-11).  fetchUser is        *)
(* imported from a library: its promise is settled by the environment,     *)
(* with a user record or with a rejection.  A user holds id, firstName     *)
(* and lastName, and possibly further fields.                              *)
(***************************************************************************)
MaxNameLen == 1

NameChars == {"a", "b"}

RECURSIVE NamesOfLen(_)
NamesOfLen(n) ==
  IF n = 0 THEN {<<>>}
  ELSE {Append(str, ch) : str \in NamesOfLen(n - 1), ch \in NameChars}

Names == UNION {NamesOfLen(n) : n \in 0..MaxNameLen}

Users ==
  {[id |-> "1", firstName |-> f, lastName |-> l] : f \in Names, l \in Names}
  \cup
  {[id |-> "2", firstName |-> f, lastName |-> l, age |-> 30] :
     f \in Names, l \in Names}

Rejections == {"NotFound", "NetworkError"}

ArgLists == {<<>>, <<"1">>, <<"2", "verbose">>}

Fulfilled(v) == [kind |-> "fulfilled", value |-> v]
Rejected(e) == [kind |-> "rejected", reason |-> e]

\* `${user.firstName} ${user.lastName}`
fullNameLastFirst(user) == user.lastName \o <<" ">> \o user.firstName

fullNameOf(user) == user.firstName \o <<" ">> \o user.lastName

\* { ...user, fullName: ... }
withFullName(user) ==
  [f \in DOMAIN user \cup {"fullName"} |->
     IF f = "fullName" THEN fullNameOf(user) ELSE user[f]]

(***************************************************************************)
(* SpecFetch: the call forwards its arguments to fetchUser (FetchCall),    *)
(* the environment settles that promise (FetchUserResolves,                *)
(* FetchUserRejects), and the function resumes after the await (Resume):   *)
(* it returns the extended record, or the rejection propagates.            *)
(***************************************************************************)
FetchCall ==
  /\ fpc = "idle"
  /\ \E a \in ArgLists :
       /\ fargs' = a
       /\ fetchUserCalls' = Append(fetchUserCalls, a)
  /\ fpc' = "await"
  /\ UNCHANGED <<settled, fresult>>
  /\ UNCHANGED <<lookupVars, submitVars, bareVars>>

FetchUserResolves ==
  /\ fpc = "await"
  /\ \E user \in Users : settled' = Fulfilled(user)
  /\ fpc' = "resume"
  /\ UNCHANGED <<fargs, fetchUserCalls, fresult>>
  /\ UNCHANGED <<lookupVars, submitVars, bareVars>>

FetchUserRejects ==
  /\ fpc = "await"
  /\ \E e \in Rejections : settled' = Rejected(e)
  /\ fpc' = "resume"
  /\ UNCHANGED <<fargs, fetchUserCalls, fresult>>
  /\ UNCHANGED <<lookupVars, submitVars, bareVars>>

Resume ==
  /\ fpc = "resume"
  /\ IF settled.kind = "fulfilled"
       THEN /\ fresult' = Return(withFullName(settled.value))
            /\ fpc' = "resolved"
       ELSE /\ fresult' = Throw(settled.reason)
            /\ fpc' = "rejected"
  /\ UNCHANGED <<fargs, fetchUserCalls, settled>>
  /\ UNCHANGED <<lookupVars, submitVars, bareVars>>

NextFetch == FetchCall \/ FetchUserResolves \/ FetchUserRejects \/ Resume

SpecFetch == Init /\ [][NextFetch]_vars

(***************************************************************************)
(* The bare copy of canUserAccess (src/unnamed/part_002:12-14), reading    *)
(* its own table.  SpecBoth: one step calls the exercise's function and    *)
(* the bare copy with the same role and action and logs both completions.  *)
(***************************************************************************)
canUserAccessBare(role, action) ==
  IF role \in DOMAIN userAccessModelBare
    THEN Return(includes(userAccessModelBare[role], action))
    ELSE Throw("TypeError")

CallBoth ==
  /\ Len(pairs) < MaxCalls
  /\ \E role \in RoleInputs, action \in ActionInputs :
       pairs' = Append(pairs,
                       [role |-> role, action |-> action,
                        exercise |-> canUserAccess(role, action),
                        bare |-> canUserAccessBare(role, action)])
  /\ UNCHANGED userAccessModelBare
  /\ UNCHANGED <<lookupVars, submitVars, fetchVars>>

NextBoth == CallBoth

SpecBoth == Init /\ [][NextBoth]_vars

(***************************************************************************)
(* The closed sets as the specification of the repository writes them.     *)
(***************************************************************************)
SpecRoles == {"user", "admin", "anonymous"}
SpecActions == {"create", "update-self", "update-any", "delete", "view"}

Logged(role, action) ==
  {i \in DOMAIN history : history[i].role = role /\ history[i].action = action}

(***************************************************************************)
(* C1: for every role r of {user, admin, anonymous} and every action a of  *)
(* {create, update-self, update-any, delete, view}, canUserAccess(r, a)    *)
(* returns true if and only if a is an element of userAccessModel[r].      *)
(***************************************************************************)
C1_TrueIffListed ==
  \A i \in DOMAIN history :
    (history[i].role \in SpecRoles /\ history[i].action \in SpecActions)
      => ((history[i].outcome = Return(TRUE))
            <=> (\E j \in DOMAIN userAccessModel[history[i].role] :
                   userAccessModel[history[i].role][j] = history[i].action))

C1_Witness ==
  /\ \E i \in DOMAIN history :
       /\ history[i].role \in SpecRoles /\ history[i].action \in SpecActions
       /\ history[i].outcome = Return(TRUE)
  /\ \E i \in DOMAIN history :
       /\ history[i].role \in SpecRoles /\ history[i].action \in SpecActions
       /\ history[i].outcome = Return(FALSE)


(***************************************************************************)
(* C2 as stated: a call with a role that has no entry in the table returns *)
(* false and raises nothing from within the lookup.                        *)
(***************************************************************************)
C2_MissingRoleReturnsFalse ==
  \A i \in DOMAIN history :
    history[i].role \notin DOMAIN userAccessModel
      => history[i].outcome = Return(FALSE)

(***************************************************************************)
(* C2 amended: a call with a role that has no entry in the table returns   *)
(* nothing: the lookup itself raises a TypeError; false is returned when   *)
(* the role has an entry and the action is absent from its list.           *)
(***************************************************************************)
C2_MissingRoleThrows ==
  \A i \in DOMAIN history :
    /\ history[i].role \notin DOMAIN userAccessModel
         => history[i].outcome = Throw("TypeError")
    /\ (/\ history[i].role \in DOMAIN userAccessModel
        /\ history[i].action \notin Elements(userAccessModel[history[i].role]))
         => history[i].outcome = Return(FALSE)

C2_Witness ==
  /\ \E i \in DOMAIN history :
       /\ history[i].role \notin DOMAIN userAccessModel
       /\ history[i].outcome.kind = "throw"
  /\ \E i \in DOMAIN history :
       /\ history[i].role \in DOMAIN userAccessModel
       /\ history[i].action \notin Elements(userAccessModel[history[i].role])

(***************************************************************************)
(* C3: the table is never mutated after initialization: after any sequence *)
(* of canUserAccess calls, with any arguments, the roles present and the   *)
(* ordered action list of each role are those of the initial table.        *)
(***************************************************************************)
C3_TableNeverMutated ==
  /\ DOMAIN userAccessModel = DOMAIN UserAccessModel
  /\ \A r \in DOMAIN UserAccessModel :
       /\ Len(userAccessModel[r]) = Len(UserAccessModel[r])
       /\ \A i \in 1..Len(UserAccessModel[r]) :
            userAccessModel[r][i] = UserAccessModel[r][i]

C3_Witness ==
  /\ Len(history) >= 2
  /\ \E i \in DOMAIN history : history[i].role = "admin"
  /\ \E i \in DOMAIN history : history[i].role \notin SpecRoles

(***************************************************************************)
(* C4: in every reachable state the table is total over the role set       *)
(* {user, admin, anonymous}, and each role's list is a non-empty subset of *)
(* the global action set {create, update-self, update-any, delete, view}.  *)
(***************************************************************************)
C4_TotalNonEmptyLists ==
  /\ DOMAIN userAccessModel = SpecRoles
  /\ \A r \in SpecRoles :
       /\ Len(userAccessModel[r]) >= 1
       /\ Elements(userAccessModel[r]) \subseteq SpecActions

C4_Witness ==
  /\ Len(history) >= 1
  /\ history[Len(history)].role = "anonymous"
  /\ Len(userAccessModel["anonymous"]) = 1

(***************************************************************************)
(* C5: canUserAccess is deterministic, with no hidden state: any two calls *)
(* with the same role and action complete alike, whatever calls were made  *)
(* before either.                                                          *)
(***************************************************************************)
C5_SameArgumentsSameResult ==
  \A i, j \in DOMAIN history :
    (history[i].role = history[j].role /\ history[i].action = history[j].action)
      => history[i].outcome = history[j].outcome

C5_Witness ==
  \E i, j \in DOMAIN history :
    /\ i + 1 < j
    /\ history[i].role = history[j].role
    /\ history[i].action = history[j].action
    /\ history[i].outcome = Return(TRUE)
    /\ history[i + 1].role = history[i].role
    /\ history[i + 1].action # history[i].action

(***************************************************************************)
(* C8: canUserAccess("anonymous", "delete") returns false.                 *)
(***************************************************************************)
C8_AnonymousCannotDelete ==
  \A i \in Logged("anonymous", "delete") : history[i].outcome = Return(FALSE)

C8_Witness == Logged("anonymous", "delete") # {}

(***************************************************************************)
(* C9: canUserAccess("admin", "delete") returns true.                      *)
(***************************************************************************)
C9_AdminCanDelete ==
  \A i \in Logged("admin", "delete") : history[i].outcome = Return(TRUE)

C9_Witness == Logged("admin", "delete") # {}

(***************************************************************************)
(* C10: canUserAccess("user", "update-self") returns true.                 *)
(***************************************************************************)
C10_UserCanUpdateSelf ==
  \A i \in Logged("user", "update-self") : history[i].outcome = Return(TRUE)

C10_Witness == Logged("user", "update-self") # {}

(***************************************************************************)
(* C6: for every role of the closed role set and every action of the       *)
(* closed action set, canUserAccess terminates with a boolean result and   *)
(* never reaches an error outcome.  A running call can always take its     *)
(* next step, a step of the scan either returns a boolean or moves the     *)
(* index one element closer to the end of the list, and the call never     *)
(* stands at a thrown error.                                               *)
(***************************************************************************)
ValidCall(c) ==
  pc[c] # "idle" /\ args[c].role \in SpecRoles /\ args[c].action \in SpecActions

Remaining(c) == Len(userAccessModel[args[c].role]) + 1 - k[c]

C6_ValidCallReturnsBoolean ==
  /\ [](\A c \in Callers :
          ValidCall(c) =>
            /\ pc[c] \in {"lookup", "scan", "returned"}
            /\ pc[c] = "lookup" => ENABLED Lookup(c)
            /\ pc[c] = "scan" =>
                 k[c] <= Len(userAccessModel[args[c].role]) + 1 /\ ENABLED ScanStep(c)
            /\ pc[c] = "returned" => outcome[c] \in {Return(TRUE), Return(FALSE)})
  /\ [][\A c \in Callers :
          (ValidCall(c) /\ pc[c] = "scan" /\ <<pc[c], k[c]>>' # <<pc[c], k[c]>>)
            => \/ pc'[c] = "returned" /\ outcome'[c] \in {Return(TRUE), Return(FALSE)}
               \/ pc'[c] = "scan" /\ Remaining(c)' < Remaining(c)]_vars

C6_Witness ==
  \E c \in Callers :
    /\ ValidCall(c)
    /\ args[c].role = "user"
    /\ pc[c] = "returned"
    /\ outcome[c] = Return(FALSE)
    /\ k[c] = Len(userAccessModel["user"]) + 1

(***************************************************************************)
(* C7: with any number of callers running canUserAccess concurrently and   *)
(* without synchronization, under every interleaving each call completes   *)
(* as it would when run alone, and the table stays unchanged.              *)
(***************************************************************************)
C7_InterleavedCallsAsAlone ==
  /\ userAccessModel = UserAccessModel
  /\ \A c \in Callers :
       pc[c] \in {"returned", "threw"}
         => outcome[c] = canUserAccess(args[c].role, args[c].action)

C7_Witness ==
  \E c, d \in Callers :
    /\ c # d
    /\ pc[c] = "returned" /\ overlapped[c]
    /\ pc[d] = "scan" /\ k[d] >= 2
    /\ args[c].role = args[d].role

(***************************************************************************)
(* C11: onSubmit never reaches createUser with an unchecked or invalid     *)
(* email.  If values.email holds no "@", onSubmit fails with the error     *)
(* "Email is invalid" and createUser is never called; otherwise the        *)
(* isValidEmail check comes before createUser, and createUser is called    *)
(* exactly once, with that same email.                                     *)
(***************************************************************************)
HasAt(str) == \E i \in 1..Len(str) : str[i] = "@"

CreateUserCalls == {i \in DOMAIN trace : trace[i].fn = "createUser"}

C11_CreateUserOnlyAfterValidCheck ==
  /\ \A i \in CreateUserCalls :
       /\ HasAt(trace[i].email)
       /\ trace[i].email = values.email
       /\ \E j \in 1..(i - 1) :
            trace[j] = [fn |-> "isValidEmail", email |-> trace[i].email]
  /\ Cardinality(CreateUserCalls) <= 1
  /\ (spc \in {"resolved", "rejected"} /\ ~HasAt(values.email))
       => /\ spc = "rejected"
          /\ sresult = Throw("Email is invalid")
          /\ CreateUserCalls = {}
  /\ (spc \in {"resolved", "rejected"} /\ HasAt(values.email))
       => /\ spc = "resolved"
          /\ Cardinality(CreateUserCalls) = 1

C11_Witness ==
  /\ spc = "resolved"
  /\ values.email = <<"a", "@", ".">>
  /\ CreateUserCalls # {}

(***************************************************************************)
(* C12: for every role r, canUserAccess(r, "view") returns true (for       *)
(* anonymous in particular), and the roles are ordered by privilege: every *)
(* action permitted to anonymous is permitted to user, every action        *)
(* permitted to user is permitted to admin, and admin is permitted every   *)
(* action of the action set.                                               *)
(***************************************************************************)
Permitted(i) == history[i].outcome = Return(TRUE)

C12_ViewForAllAndRolesOrdered ==
  /\ \A i \in DOMAIN history :
       (history[i].role \in SpecRoles /\ history[i].action = "view")
         => Permitted(i)
  /\ \A i \in DOMAIN history :
       (history[i].role = "admin" /\ history[i].action \in SpecActions)
         => Permitted(i)
  /\ \A i, j \in DOMAIN history :
       (/\ history[i].action = history[j].action
        /\ <<history[i].role, history[j].role>>
             \in {<<"anonymous", "user">>, <<"user", "admin">>}
        /\ Permitted(i))
         => Permitted(j)

C12_Witness ==
  /\ Len(history) >= 3
  /\ history[1] = [role |-> "anonymous", action |-> "view",
                   outcome |-> Return(TRUE)]
  /\ history[2].role = "user" /\ history[2].action = "view"
  /\ history[3].role = "admin" /\ history[3].action = "view"

(***************************************************************************)
(* C13: fetchUserWithFullName, for any arguments, calls fetchUser exactly  *)
(* once with those same arguments and returns a record that carries every  *)
(* field of the fetched user unchanged plus fullName equal to firstName, a *)
(* single space, then lastName; if fetchUser fails, the failure propagates *)
(* and no record is returned.                                              *)
(***************************************************************************)
IsFirstSpaceLast(str, first, last) ==
  /\ Len(str) = Len(first) + 1 + Len(last)
  /\ \A i \in 1..Len(first) : str[i] = first[i]
  /\ str[Len(first) + 1] = " "
  /\ \A i \in 1..Len(last) : str[Len(first) + 1 + i] = last[i]

C13_FetchOnceAndExtend ==
  /\ fpc # "idle" => fetchUserCalls = <<fargs>>
  /\ fpc = "resolved" =>
       /\ settled.kind = "fulfilled"
       /\ fresult.kind = "return"
       /\ DOMAIN fresult.value = DOMAIN settled.value \cup {"fullName"}
       /\ \A f \in DOMAIN settled.value : fresult.value[f] = settled.value[f]
       /\ IsFirstSpaceLast(fresult.value.fullName,
                           settled.value.firstName, settled.value.lastName)
  /\ fpc = "rejected" =>
       /\ settled.kind = "rejected"
       /\ fresult = Throw(settled.reason)
  /\ (fpc \in {"resolved", "rejected"} /\ settled.kind = "rejected")
       => fpc = "rejected"

C13_Witness ==
  /\ fpc = "resolved"
  /\ fargs = <<"2", "verbose">>
  /\ settled.value = [id |-> "2", firstName |-> <<"a">>, lastName |-> <<"b">>,
                      age |-> 30]
  /\ fresult.value.fullName = <<"a", " ", "b">>

(***************************************************************************)
(* C14: the two definitions of canUserAccess in the repository (the        *)
(* annotated exercise and the bare copy) are equivalent: their tables have *)
(* the same roles with the same ordered action lists, and for every role   *)
(* and action both functions return the same result.                       *)
(***************************************************************************)
C14_CopiesEquivalent ==
  /\ DOMAIN userAccessModelBare = DOMAIN userAccessModel
  /\ \A r \in DOMAIN userAccessModel :
       /\ Len(userAccessModelBare[r]) = Len(userAccessModel[r])
       /\ \A i \in 1..Len(userAccessModel[r]) :
            userAccessModelBare[r][i] = userAccessModel[r][i]
  /\ \A i \in DOMAIN pairs : pairs[i].bare = pairs[i].exercise

C14_Witness ==
  /\ \E i \in DOMAIN pairs :
       pairs[i].role = "admin" /\ pairs[i].action = "update-any"
         /\ pairs[i].bare = Return(TRUE)
  /\ \E i \in DOMAIN pairs :
       pairs[i].role = "anonymous" /\ pairs[i].bare = Return(FALSE)
  /\ \E i \in DOMAIN pairs : pairs[i].bare.kind = "throw"

=============================================================================
